---------------------------- MODULE Spec2Model ----------------------------
(***************************************************************************)
(* Career Compass API (my-backend/main.py): the HTTP service as a state   *)
(* machine.  The state is the process-wide data (users_db,                *)
(* combined_mock_data), the last request served and its response.  One    *)
(* action per endpoint; each action is the whole pipeline of the request: *)
(* body parsing, dependencies (bearer identity), parameter validation,    *)
(* the handler body.                                                       *)
(***************************************************************************)
EXTENDS Integers, Sequences, FiniteSets, TLC

VARIABLES
    users_db,            \* main.py:26  the user table
    combined_mock_data,  \* main.py:230 the loaded JSON document ({} when the file is absent)
    request,             \* the request being served
    response,            \* the response sent for it
    handler_ran,         \* the endpoint function whose body was executed for it ("none" if none)
    issued_tokens,       \* history: access tokens returned by successful POST /token calls
    failed_login_since   \* history: a login failed after the first token was issued

vars == <<users_db, combined_mock_data, request, response, handler_ran,
          issued_tokens, failed_login_since>>

---------------------------------------------------------------------------
(* Bounds of the model *)

\* longest quiz submission enumerated
MaxAnswers == 4
\* longest events_template list enumerated
MaxEvents == 2

---------------------------------------------------------------------------
(* Input alphabets *)

\* a request that carries no Authorization header
NoAuthorization == "<no-authorization>"
\* a required form field or query parameter that the request does not carry
Missing == "<missing>"
\* a field of a request or response that does not apply
NA == "-"

Tokens == {"testuser", "intruder", NoAuthorization}
Usernames == {"testuser", "intruder", "fakehashedpassword", ""}
Passwords == {"fakehashedpassword", "testuser", "wrong", ""}
Keys == {"k1", "k2"}
Metrics == {"m1", "m2"}
QuestionIds == {"q1", "q2"}
AnswerValues == {1, 3, 4, 5}
SessionIds == {"uuid-1", "uuid-2"}

\* what the bytes of a request body are: no body, bytes that are not JSON,
\* JSON that does not fit the declared model, JSON that fits it
BodyKinds == {"none", "badjson", "badschema", "json"}

---------------------------------------------------------------------------
(* Data model *)

SeedUsers ==
    [u \in {"testuser"} |->
        [username |-> "testuser", email |-> "test@example.com",
         hashed_password |-> "fakehashedpassword", disabled |-> FALSE]]

QuizAnswer == [question_id : QuestionIds, answer : AnswerValues]

RECURSIVE SeqsUpTo(_, _)
SeqsUpTo(S, n) ==
    IF n = 0 THEN {<<>>}
    ELSE LET shorter == SeqsUpTo(S, n - 1)
         IN  shorter \cup {Append(s, e) : s \in {t \in shorter : Len(t) = n - 1}, e \in S}

\* QuizSubmission.answers
Submissions == SeqsUpTo(QuizAnswer, MaxAnswers)

ProfileA ==
    [MBTI |-> "ESTJ",
     OCEAN |-> [Openness |-> 4, Conscientiousness |-> 5, Extraversion |-> 4,
                Agreeableness |-> 3, Neuroticism |-> 2],
     interests |-> <<"Technology", "Leadership", "Problem Solving">>]

ProfileB ==
    [MBTI |-> "INFP",
     OCEAN |-> [Openness |-> 3, Conscientiousness |-> 3, Extraversion |-> 2,
                Agreeableness |-> 4, Neuroticism |-> 3],
     interests |-> <<"Art", "Writing", "Helping Others">>]

NoProfile ==
    [MBTI |-> NA,
     OCEAN |-> [Openness |-> 0, Conscientiousness |-> 0, Extraversion |-> 0,
                Agreeableness |-> 0, Neuroticism |-> 0],
     interests |-> <<>>]

\* the answers counted as positive are those above this value (main.py:104)
PositiveAbove == 3

---------------------------------------------------------------------------
(* Auth stub *)

\* get_user returns a UserInDB or None; None is modelled as the empty record set
get_user(username) ==
    IF username \in DOMAIN users_db THEN {users_db[username]} ELSE {}

\* verify_password accepting every password
verify_password_any(plain_password, hashed_password) ==
    TRUE

verify_password(plain_password, hashed_password) ==
    plain_password = hashed_password

\* the set holding the authenticated user, empty for False
authenticate_user(username, password) ==
    LET user == get_user(username)
    IN  IF user = {} THEN {}
        ELSE {u \in user : verify_password(password, u.hashed_password)}

\* OAuth2PasswordBearer: the token of the Authorization header, or no token
oauth2_scheme(token) ==
    IF token = NoAuthorization THEN {} ELSE {token}

\* get_current_user taking every token for the seeded user
get_current_user_any(token) ==
    {users_db["testuser"]}

\* get_current_user accepting only the tokens a login has returned
get_current_user_session(token) ==
    IF token \in issued_tokens THEN get_user(token) ELSE {}

\* the set holding the current user, empty when HTTPException(401) is raised
get_current_user(token) ==
    get_user(token)

---------------------------------------------------------------------------
(* Quiz classifier *)

RECURSIVE CountPositive(_)
\* sum(1 for q in answers if q.answer > 3)
CountPositive(answers) ==
    IF answers = <<>> THEN 0
    ELSE (IF Head(answers).answer > PositiveAbove THEN 1 ELSE 0)
         + CountPositive(Tail(answers))

\* the classifier with the comparison made non-strict
classify_personality_ge(answers) ==
    LET positive_answers == CountPositive(answers)
    IN  IF 2 * positive_answers >= Len(answers) THEN ProfileA ELSE ProfileB

\* positive_answers > len(answers) / 2, the division being real division
classify_personality(answers) ==
    LET positive_answers == CountPositive(answers)
    IN  IF 2 * positive_answers > Len(answers) THEN ProfileA ELSE ProfileB

---------------------------------------------------------------------------
(* Mock data store: the JSON document of combined_mock_data.json *)

\* dict.get(key): the set holding the value, empty for None
dict_get(d, key) ==
    IF key \in DOMAIN d THEN {d[key]} ELSE {}

RequiredEventFields == {"time", "title", "description", "visual_prompt", "media_type"}

TemplateFull ==
    [time |-> "2025", title |-> "First job", description |-> "Joins a startup",
     visual_prompt |-> "an office", media_type |-> "image",
     media_url |-> "https://media/1.png"]

\* a template without the optional media_url
TemplateNoUrl ==
    [time |-> "2030", title |-> "Promotion", description |-> "Leads a team",
     visual_prompt |-> "a meeting", media_type |-> "video"]

\* a template that lacks the field "title"
TemplateNoTitle ==
    [time |-> "2035", description |-> "Untitled event",
     visual_prompt |-> "a blank wall", media_type |-> "image",
     media_url |-> "https://media/3.png"]

Templates == {TemplateFull, TemplateNoUrl, TemplateNoTitle}

\* the values stored under a metric key: an empty series and a non-empty one
MetricData == {<<>>, <<10, 20>>}

\* the "trends" sub-mappings: every mapping from some of the metric keys to data
TrendsMappings == UNION {[S -> MetricData] : S \in SUBSET Metrics}

EventsLists == SeqsUpTo(Templates, MaxEvents)

\* a JSON object with the keys "trends" and "events_template", each optional
JsonObject(trendsOpt, eventsOpt) ==
    [kind |-> "object",
     fields |->
        [k \in (IF trendsOpt # {} THEN {"trends"} ELSE {})
               \cup (IF eventsOpt # {} THEN {"events_template"} ELSE {}) |->
            IF k = "trends" THEN CHOOSE t \in trendsOpt : TRUE
                            ELSE CHOOSE e \in eventsOpt : TRUE]]

JsonNull == [kind |-> "null", fields |-> <<>>]
\* a non-empty JSON array stored where a persona object is expected
JsonArray == [kind |-> "array", fields |-> <<>>]

\* every value the document may hold under a career/persona key
Records ==
    {JsonObject(t, e) :
        t \in {{}} \cup {{m} : m \in TrendsMappings},
        e \in {{}} \cup {{l} : l \in EventsLists}}
    \cup {JsonNull, JsonArray}

ReferencePersona ==
    JsonObject({[m \in Metrics |-> <<10, 20>>]}, {<<TemplateFull>>})

\* json.load failed with FileNotFoundError: combined_mock_data = {}
NoFile == <<>>

\* the documents enumerated: no file, one key seeded with any record, and one
\* key seeded with any record beside the reference persona under the other key
Docs ==
    {NoFile}
    \cup {(k :> r) : k \in Keys, r \in Records}
    \cup {(k :> r) @@ (o :> ReferencePersona) : k \in Keys, o \in Keys, r \in Records}

\* the record shapes: the records holding at most one of the two keys, the
\* reference persona, null and the array
RecordShapes ==
    {r \in Records : r.kind # "object" \/ Cardinality(DOMAIN r.fields) <= 1}
    \cup {ReferencePersona}

\* the documents the whole service is run on: no file, and every record shape
\* under one key beside the reference persona under the other
ServiceDocs ==
    {NoFile} \cup {("k1" :> r) @@ ("k2" :> ReferencePersona) : r \in RecordShapes}

\* Python truthiness of a stored JSON value
Truthy(value) ==
    \/ value.kind = "array"
    \/ value.kind = "object" /\ DOMAIN value.fields # {}

\* whether the value has a .get method (is a dict)
HasGet(value) == value.kind = "object"

---------------------------------------------------------------------------
(* Static content *)

Recommendations ==
    << [career |-> "AI Engineer",
        required_skills |-> <<"Python", "Machine Learning", "Deep Learning", "Cloud Platforms">>,
        salary |-> "$120,000 - $180,000", growth_potential |-> "High",
        future_trends |-> <<"Generative AI", "Ethical AI", "AI in Healthcare">>],
       [career |-> "Data Scientist",
        required_skills |-> <<"Python/R", "Statistics", "Data Visualization", "SQL">>,
        salary |-> "$110,000 - $170,000", growth_potential |-> "High",
        future_trends |-> <<"Big Data Analytics", "Predictive Modeling", "Data Governance">>],
       [career |-> "UX Designer",
        required_skills |-> <<"UI/UX Principles", "Wireframing", "Prototyping", "User Research">>,
        salary |-> "$80,000 - $130,000", growth_potential |-> "Medium-High",
        future_trends |-> <<"AI in UX", "Voice User Interfaces (VUI)", "Inclusive Design">>] >>

\* trend_score is kept in hundredths (0.95 is 95)
CareerTrends ==
    << [trend_name |-> "AI Ethics Specialist",
        summary |-> "Growing demand for ethical considerations in AI development.",
        status |-> "rising", trend_score |-> 95],
       [trend_name |-> "Green Energy Consultant",
        summary |-> "Increasing focus on sustainable energy solutions.",
        status |-> "rising", trend_score |-> 88],
       [trend_name |-> "Blockchain Developer",
        summary |-> "Continued, but more specialized, demand in decentralized technologies.",
        status |-> "stable", trend_score |-> 75],
       [trend_name |-> "Traditional Retail Manager",
        summary |-> "Facing challenges due to e-commerce growth and automation.",
        status |-> "falling", trend_score |-> 30] >>

Scenario ==
    [description |-> "You are leading a project to develop a new AI-powered recommendation system. A critical deadline is approaching, and your team is facing unexpected technical challenges.",
     micro_opportunities |->
        << [opportunity |-> "Delegating tasks effectively to team members.",
            action |-> "Delegate specific sub-tasks to optimize workflow."],
           [opportunity |-> "Communicating with stakeholders about potential delays.",
            action |-> "Prepare a concise update for stakeholders outlining challenges and revised timeline."] >>]

---------------------------------------------------------------------------
(* Requests, responses and routing *)

BlankRequest ==
    [method |-> NA, path |-> NA, token |-> NoAuthorization, body_kind |-> "none",
     answers |-> <<>>, profile |-> NoProfile, username |-> NA, password |-> NA,
     career |-> NA, metric |-> NA, person_id |-> NA]

BlankResponse ==
    [status |-> 0, detail |-> <<>>, message |-> NA, user |-> NA, profile |-> NoProfile,
     access_token |-> NA, token_type |-> NA, recommendations |-> <<>>,
     trends |-> <<>>, scenario |-> <<>>, data |-> <<>>, insight |-> <<>>,
     session_id |-> NA, person_id |-> NA, timeline |-> <<>>]

\* raise HTTPException(status_code, detail); detail is the pieces of the text
HTTPException(status_code, detail) ==
    [BlankResponse EXCEPT !.status = status_code, !.detail = detail]

\* RequestValidationError: a required input is missing or does not validate
RequestValidationError == HTTPException(422, <<"Unprocessable Entity">>)

\* an exception no handler catches: the server answers 500
InternalServerError == HTTPException(500, <<"Internal Server Error">>)

Success == [BlankResponse EXCEPT !.status = 200]

\* the routing table: one route per decorator, in the order the decorators run
Routes ==
    << [method |-> "POST", path |-> "/token",               endpoint |-> "login_for_access_token"],
       [method |-> "GET",  path |-> "/",                    endpoint |-> "read_root:130"],
       [method |-> "POST", path |-> "/quiz/submit",         endpoint |-> "submit_quiz"],
       [method |-> "GET",  path |-> "/careers/recommend",   endpoint |-> "get_career_recommendations"],
       [method |-> "GET",  path |-> "/careers/trends",      endpoint |-> "get_career_trends:172"],
       [method |-> "POST", path |-> "/simulation/generate", endpoint |-> "generate_simulation"],
       [method |-> "GET",  path |-> "/api/trends",          endpoint |-> "get_career_trends:236"],
       [method |-> "GET",  path |-> "/",                    endpoint |-> "read_root:250"],
       [method |-> "GET",  path |-> "/simulate",            endpoint |-> "simulate_career"] >>

\* the router with the last matching route serving the request
match_route_last(method, path) ==
    LET hits == {i \in 1..Len(Routes) :
                    Routes[i].method = method /\ Routes[i].path = path}
    IN  IF hits = {} THEN "none"
        ELSE Routes[CHOOSE i \in hits : \A j \in hits : i >= j].endpoint

\* the router hands the request to the first route, in registration order, that
\* matches its method and path
match_route(method, path) ==
    LET hits == {i \in 1..Len(Routes) :
                    Routes[i].method = method /\ Routes[i].path = path}
    IN  IF hits = {} THEN "none"
        ELSE Routes[CHOOSE i \in hits : \A j \in hits : i <= j].endpoint

\* what serving a request ends in: the response and the endpoint function run
Outcome(resp, endpoint) == [response |-> resp, ran |-> endpoint]
Rejected(resp) == Outcome(resp, "none")

\* Depends(get_current_user): the 401 raised while the dependency is solved, if any
IdentityError(token) ==
    IF oauth2_scheme(token) = {}
    THEN {HTTPException(401, <<"Not authenticated">>)}
    ELSE IF get_current_user(token) = {}
         THEN {HTTPException(401, <<"Invalid authentication credentials">>)}
         ELSE {}

\* a route with Depends(get_current_user): a declared JSON body is decoded first,
\* then the dependency is solved, then the body is validated, then the endpoint
\* function runs
ServeProtected(req, body_field, endpoint, result) ==
    IF body_field /\ req.body_kind = "badjson" THEN Rejected(RequestValidationError)
    ELSE IF IdentityError(req.token) # {}
         THEN Rejected(CHOOSE e \in IdentityError(req.token) : TRUE)
         ELSE IF body_field /\ req.body_kind # "json"
              THEN Rejected(RequestValidationError)
              ELSE Outcome(result, endpoint)

---------------------------------------------------------------------------
(* Endpoint functions *)

\* POST /token.  A form field that is absent or empty counts as missing.
login_for_access_token(username, password) ==
    IF username \in {Missing, ""} \/ password \in {Missing, ""}
    THEN Rejected(RequestValidationError)
    ELSE LET user == authenticate_user(username, password)
         IN  IF user = {}
             THEN Outcome(HTTPException(401, <<"Incorrect username or password">>),
                          "login_for_access_token")
             ELSE Outcome([Success EXCEPT
                              !.access_token = (CHOOSE u \in user : TRUE).username,
                              !.token_type = "bearer"],
                          "login_for_access_token")

read_root_130 == [Success EXCEPT !.message = "Welcome to Career Compass API"]

read_root_250 == [Success EXCEPT !.message = "Welcome to the Career Trends API"]

submit_quiz(quiz_submission, current_user) ==
    [Success EXCEPT !.message = "Quiz submitted successfully",
                    !.profile = classify_personality(quiz_submission),
                    !.user = current_user]

\* the recommendations made to depend on the profile supplied
get_career_recommendations_by_profile(profile, current_user) ==
    [Success EXCEPT !.recommendations = IF profile = ProfileB
                                        THEN Tail(Recommendations)
                                        ELSE Recommendations,
                    !.user = current_user]

get_career_recommendations(profile, current_user) ==
    [Success EXCEPT !.recommendations = Recommendations, !.user = current_user]

get_career_trends_172(current_user) ==
    [Success EXCEPT !.trends = CareerTrends]

generate_simulation(current_user) ==
    [Success EXCEPT !.scenario = <<Scenario>>, !.user = current_user]

Insight(career, metric) ==
    <<"This is a mock insight for ", career, " ", metric,
      " trends. Gemini integration will fill missing data and provide real insights here later.">>

\* GET /api/trends answering 400 instead of 404
get_career_trends_236_bad_request(career, metric) ==
    IF career \notin DOMAIN combined_mock_data
    THEN HTTPException(400, <<"Career not found">>)
    ELSE HTTPException(400, <<"Metric ", metric, " not found for this career">>)

\* GET /api/trends
get_career_trends_236(career, metric) ==
    LET career_data == dict_get(combined_mock_data, career)
    IN  IF career_data = {} \/ \E c \in career_data : ~Truthy(c)
        THEN HTTPException(404, <<"Career not found">>)
        ELSE LET c == CHOOSE x \in career_data : TRUE
             IN  IF ~HasGet(c) THEN InternalServerError
                 ELSE LET trends == IF "trends" \in DOMAIN c.fields
                                    THEN c.fields["trends"] ELSE <<>>
                          trends_data == dict_get(trends, metric)
                      IN  IF trends_data = {} \/ \E d \in trends_data : d = <<>>
                          THEN HTTPException(404, <<"Metric ", metric, " not found for this career">>)
                          ELSE [Success EXCEPT
                                   !.data = CHOOSE d \in trends_data : TRUE,
                                   !.insight = Insight(career, metric)]

\* Event(...) built from one event template
Event(event_template) ==
    [time |-> event_template["time"], title |-> event_template["title"],
     description |-> event_template["description"],
     visual_prompt |-> event_template["visual_prompt"],
     media_type |-> event_template["media_type"],
     media_url |-> IF "media_url" \in DOMAIN event_template
                   THEN event_template["media_url"] ELSE ""]

\* GET /simulate; session_id is the value uuid.uuid4() returns in this call
simulate_career(person_id, session_id) ==
    LET persona == dict_get(combined_mock_data, person_id)
    IN  IF persona = {} \/ \E x \in persona : ~Truthy(x)
        THEN HTTPException(404, <<"Persona not found">>)
        ELSE LET p == CHOOSE x \in persona : TRUE
             IN  IF ~HasGet(p) THEN InternalServerError
                 ELSE LET templates == IF "events_template" \in DOMAIN p.fields
                                       THEN p.fields["events_template"] ELSE <<>>
                      IN  IF \E i \in 1..Len(templates) :
                                 ~(RequiredEventFields \subseteq DOMAIN templates[i])
                          THEN InternalServerError
                          ELSE [Success EXCEPT
                                   !.session_id = session_id,
                                   !.person_id = person_id,
                                   !.timeline = [i \in 1..Len(templates) |->
                                                    Event(templates[i])]]

---------------------------------------------------------------------------
(* Actions: one per endpoint, each the whole service of one request *)

\* the process-wide data and the history, which no endpoint writes
Unwritten == UNCHANGED <<users_db, combined_mock_data>>

Serve(req, out) ==
    /\ request' = req
    /\ response' = out.response
    /\ handler_ran' = out.ran

PostToken(username, password) ==
    LET req == [BlankRequest EXCEPT !.method = "POST", !.path = "/token",
                                    !.username = username, !.password = password]
        out == login_for_access_token(username, password)
    IN  /\ match_route(req.method, req.path) = "login_for_access_token"
        /\ Serve(req, out)
        /\ issued_tokens' = IF out.response.status = 200
                            THEN issued_tokens \cup {out.response.access_token}
                            ELSE issued_tokens
        /\ failed_login_since' = IF out.response.status = 401 /\ issued_tokens # {}
                                 THEN TRUE ELSE failed_login_since
        /\ Unwritten

GetRoot ==
    LET req == [BlankRequest EXCEPT !.method = "GET", !.path = "/"]
        endpoint == match_route(req.method, req.path)
    IN  /\ endpoint \in {"read_root:130", "read_root:250"}
        /\ Serve(req, Outcome(IF endpoint = "read_root:130"
                              THEN read_root_130 ELSE read_root_250, endpoint))
        /\ UNCHANGED <<issued_tokens, failed_login_since>>
        /\ Unwritten

PostQuizSubmit(token, body_kind, answers) ==
    LET req == [BlankRequest EXCEPT !.method = "POST", !.path = "/quiz/submit",
                                    !.token = token, !.body_kind = body_kind,
                                    !.answers = answers]
    IN  /\ match_route(req.method, req.path) = "submit_quiz"
        /\ Serve(req, ServeProtected(req, TRUE, "submit_quiz",
                                     submit_quiz(answers, token)))
        /\ UNCHANGED <<issued_tokens, failed_login_since>>
        /\ Unwritten

GetCareersRecommend(token, body_kind, profile) ==
    LET req == [BlankRequest EXCEPT !.method = "GET", !.path = "/careers/recommend",
                                    !.token = token, !.body_kind = body_kind,
                                    !.profile = profile]
    IN  /\ match_route(req.method, req.path) = "get_career_recommendations"
        /\ Serve(req, ServeProtected(req, TRUE, "get_career_recommendations",
                                     get_career_recommendations(profile, token)))
        /\ UNCHANGED <<issued_tokens, failed_login_since>>
        /\ Unwritten

GetCareersTrends(token, body_kind) ==
    LET req == [BlankRequest EXCEPT !.method = "GET", !.path = "/careers/trends",
                                    !.token = token, !.body_kind = body_kind]
    IN  /\ match_route(req.method, req.path) = "get_career_trends:172"
        /\ Serve(req, ServeProtected(req, FALSE, "get_career_trends:172",
                                     get_career_trends_172(token)))
        /\ UNCHANGED <<issued_tokens, failed_login_since>>
        /\ Unwritten

PostSimulationGenerate(token, body_kind) ==
    LET req == [BlankRequest EXCEPT !.method = "POST", !.path = "/simulation/generate",
                                    !.token = token, !.body_kind = body_kind]
    IN  /\ match_route(req.method, req.path) = "generate_simulation"
        /\ Serve(req, ServeProtected(req, FALSE, "generate_simulation",
                                     generate_simulation(token)))
        /\ UNCHANGED <<issued_tokens, failed_login_since>>
        /\ Unwritten

\* career and metric are required query parameters
GetApiTrends(career, metric) ==
    LET req == [BlankRequest EXCEPT !.method = "GET", !.path = "/api/trends",
                                    !.career = career, !.metric = metric]
        out == IF career = Missing \/ metric = Missing
               THEN Rejected(RequestValidationError)
               ELSE Outcome(get_career_trends_236(career, metric),
                            "get_career_trends:236")
    IN  /\ match_route(req.method, req.path) = "get_career_trends:236"
        /\ Serve(req, out)
        /\ UNCHANGED <<issued_tokens, failed_login_since>>
        /\ Unwritten

\* GET /simulate storing the defaulted media_url in the template
\* (event_template.setdefault("media_url", ""))
GetSimulateSetdefault(person_id, body_kind, session_id) ==
    LET req == [BlankRequest EXCEPT !.method = "GET", !.path = "/simulate",
                                    !.person_id = person_id, !.body_kind = body_kind]
        out == IF body_kind \in {"badjson", "badschema"} \/ person_id = Missing
               THEN Rejected(RequestValidationError)
               ELSE Outcome(simulate_career(person_id, session_id), "simulate_career")
    IN  /\ match_route(req.method, req.path) = "simulate_career"
        /\ Serve(req, out)
        /\ combined_mock_data' =
              IF out.response.status = 200
              THEN [combined_mock_data EXCEPT ![person_id].fields =
                       [k \in DOMAIN @ |->
                           IF k = "events_template"
                           THEN [i \in 1..Len(@[k]) |->
                                    [f \in DOMAIN @[k][i] \cup {"media_url"} |->
                                        IF f \in DOMAIN @[k][i] THEN @[k][i][f] ELSE ""]]
                           ELSE @[k]]]
              ELSE combined_mock_data
        /\ UNCHANGED <<users_db, issued_tokens, failed_login_since>>

\* person_id is a required query parameter; scenario_params (a Dict) is an
\* optional JSON body
GetSimulate(person_id, body_kind, session_id) ==
    LET req == [BlankRequest EXCEPT !.method = "GET", !.path = "/simulate",
                                    !.person_id = person_id, !.body_kind = body_kind]
        out == IF body_kind \in {"badjson", "badschema"} \/ person_id = Missing
               THEN Rejected(RequestValidationError)
               ELSE Outcome(simulate_career(person_id, session_id), "simulate_career")
    IN  /\ match_route(req.method, req.path) = "simulate_career"
        /\ Serve(req, out)
        /\ UNCHANGED <<issued_tokens, failed_login_since>>
        /\ Unwritten

---------------------------------------------------------------------------
(* Specifications *)

QueryKeys == Keys \cup {"k3", Missing}
QueryMetrics == Metrics \cup {"m3", Missing}

\* the submissions sent to the whole service: the empty one, a tie, one of each profile
SampleSubmissions ==
    {<<>>,
     <<[question_id |-> "q1", answer |-> 4], [question_id |-> "q2", answer |-> 3]>>,
     <<[question_id |-> "q1", answer |-> 5]>>,
     <<[question_id |-> "q2", answer |-> 1]>>}

\* the state once the module is imported: the seed user, the loaded document
Init ==
    /\ users_db = SeedUsers
    /\ combined_mock_data \in ServiceDocs
    /\ request = BlankRequest
    /\ response = BlankResponse
    /\ handler_ran = "none"
    /\ issued_tokens = {}
    /\ failed_login_since = FALSE

Next ==
    \/ \E u \in Usernames \cup {Missing}, p \in Passwords \cup {Missing} : PostToken(u, p)
    \/ GetRoot
    \/ \E t \in Tokens, k \in BodyKinds \ {"json"} : PostQuizSubmit(t, k, <<>>)
    \/ \E t \in Tokens, a \in SampleSubmissions : PostQuizSubmit(t, "json", a)
    \/ \E t \in Tokens, k \in BodyKinds \ {"json"} : GetCareersRecommend(t, k, NoProfile)
    \/ \E t \in Tokens, p \in {ProfileA, ProfileB} : GetCareersRecommend(t, "json", p)
    \/ \E t \in Tokens, k \in BodyKinds : GetCareersTrends(t, k)
    \/ \E t \in Tokens, k \in BodyKinds : PostSimulationGenerate(t, k)
    \/ \E c \in QueryKeys, m \in QueryMetrics : GetApiTrends(c, m)
    \/ \E p \in QueryKeys, k \in BodyKinds, s \in SessionIds : GetSimulate(p, k, s)

Spec == Init /\ [][Next]_vars

\* the classifier as a function of the submission: a quiz request with any
\* submission of up to MaxAnswers answers is received, then served
InitClassify ==
    /\ users_db = SeedUsers
    /\ combined_mock_data = NoFile
    /\ \E t \in Tokens, a \in Submissions :
          request = [BlankRequest EXCEPT !.method = "POST", !.path = "/quiz/submit",
                                         !.token = t, !.body_kind = "json",
                                         !.answers = a]
    /\ response = BlankResponse
    /\ handler_ran = "none"
    /\ issued_tokens = {}
    /\ failed_login_since = FALSE

NextClassify ==
    /\ response = BlankResponse
    /\ PostQuizSubmit(request.token, request.body_kind, request.answers)

SpecClassify == InitClassify /\ [][NextClassify]_vars

\* the two lookups of the mock data store alone, over every document of Docs
InitData ==
    /\ users_db = SeedUsers
    /\ combined_mock_data \in Docs
    /\ request = BlankRequest
    /\ response = BlankResponse
    /\ handler_ran = "none"
    /\ issued_tokens = {}
    /\ failed_login_since = FALSE

NextData ==
    \/ \E c \in QueryKeys, m \in QueryMetrics : GetApiTrends(c, m)
    \/ \E p \in QueryKeys, k \in BodyKinds, s \in SessionIds : GetSimulate(p, k, s)

SpecData == InitData /\ [][NextData]_vars

---------------------------------------------------------------------------
(* Properties *)

Served == response.status # 0

ProtectedPaths ==
    {"/quiz/submit", "/careers/recommend", "/careers/trends", "/simulation/generate"}

\* the protected routes that declare a JSON body
BodyPaths == {"/quiz/submit", "/careers/recommend"}

\* the request carries a bearer token that is a username of the user table
ValidIdentity ==
    request.token # NoAuthorization /\ request.token \in DOMAIN users_db

\* the number of answers of the request that are greater than 3
NumAbove3 ==
    Cardinality({i \in 1..Len(request.answers) : request.answers[i].answer > 3})

(* C1: a served quiz submission gets profile A exactly when the number of
   answers greater than 3 is more than half the number of answers, and
   profile B otherwise (the empty submission and the exact tie included);
   the result is a function of that number and of the length alone, so
   neither the question identifiers nor the order of the answers matter. *)
C1_ClassifierMajority ==
    (request.path = "/quiz/submit" /\ handler_ran = "submit_quiz") =>
        /\ response.status = 200
        /\ response.profile =
              IF 2 * NumAbove3 > Len(request.answers) THEN ProfileA ELSE ProfileB
        /\ (request.answers = <<>> => response.profile = ProfileB)

\* a tie of four answers, two of them above 3, was classified as profile B
C1_Witness_Tie ==
    /\ handler_ran = "submit_quiz"
    /\ Len(request.answers) = 4
    /\ NumAbove3 = 2
    /\ request.answers[1].answer > 3
    /\ request.answers[2].answer <= 3
    /\ request.answers[1].question_id # request.answers[2].question_id
    /\ response.profile = ProfileB

\* the login request carries both form fields, neither of them empty
CredentialsSupplied ==
    request.username \notin {Missing, ""} /\ request.password \notin {Missing, ""}

\* the submitted password is the stored hashed_password of the submitted username
CredentialsMatch ==
    /\ request.username \in DOMAIN users_db
    /\ request.password = users_db[request.username].hashed_password

(* C2, as stated: POST /token with a (username, password) pair succeeds,
   returning the username as a bearer token, exactly when the username is in
   the user table and the password is its stored hash; every other pair is
   answered 401. *)
C2_Original ==
    (Served /\ request.path = "/token"
        /\ request.username # Missing /\ request.password # Missing) =>
        IF CredentialsMatch
        THEN /\ response.status = 200
             /\ response.access_token = request.username
             /\ response.token_type = "bearer"
        ELSE response.status = 401

(* C2, amended: a pair of non-empty strings succeeds, returning the username
   as a bearer token, exactly when the username is in the user table and the
   password is its stored hash, and is answered 401 otherwise; a request
   whose username or password is empty or absent is answered 422 and the
   credentials are not looked at. *)
C2_LoginContract ==
    (Served /\ request.path = "/token") =>
        IF ~CredentialsSupplied
        THEN response.status = 422 /\ handler_ran = "none"
        ELSE IF CredentialsMatch
             THEN /\ response.status = 200
                  /\ response.access_token = request.username
                  /\ response.token_type = "bearer"
             ELSE response.status = 401 /\ response.access_token = NA

\* the seeded user logged in, and a known username with a wrong password did not
C2_Witness_Login ==
    /\ request.path = "/token"
    /\ request.username = "testuser"
    /\ request.password = "testuser"
    /\ response.status = 401
    /\ issued_tokens = {"testuser"}

(* C3, as stated: a protected endpoint called without a valid bearer
   identity answers 401 whatever else the request holds, and its handler
   body is not run. *)
C3_Original ==
    (Served /\ request.path \in ProtectedPaths /\ ~ValidIdentity) =>
        response.status = 401 /\ handler_ran = "none"

(* C3, amended: a protected endpoint called without a valid bearer identity
   never runs its handler body, and answers 401, except that the two
   endpoints declaring a JSON body answer 422 when the body is not
   decodable JSON, which is found before the identity is looked at. *)
C3_UnauthorizedBeforeHandler ==
    (Served /\ request.path \in ProtectedPaths /\ ~ValidIdentity) =>
        /\ handler_ran = "none"
        /\ response.status =
              IF request.path \in BodyPaths /\ request.body_kind = "badjson"
              THEN 422 ELSE 401
        /\ response.user = NA

\* an unknown token with no body at all on a body-taking endpoint was answered 401
C3_Witness_NoBody ==
    /\ request.path = "/careers/recommend"
    /\ request.token = "intruder"
    /\ request.body_kind = "none"
    /\ response.status = 401

\* the record the document holds under key (key must be seeded)
Stored(key) == combined_mock_data[key]

(* C4, as stated, on the records that do hold a "trends" mapping: GET
   /api/trends answers 404 "Career not found" for an unseeded career, 404
   "Metric <metric> not found for this career" for a seeded career without
   the metric key, and in every other case the stored data with the insight
   built from career and metric. *)
C4_Original ==
    (Served /\ request.path = "/api/trends"
        /\ request.career # Missing /\ request.metric # Missing
        /\ (request.career \in DOMAIN combined_mock_data =>
                /\ Stored(request.career).kind = "object"
                /\ "trends" \in DOMAIN Stored(request.career).fields)) =>
        IF request.career \notin DOMAIN combined_mock_data
        THEN response.status = 404 /\ response.detail = <<"Career not found">>
        ELSE IF request.metric \notin DOMAIN Stored(request.career).fields["trends"]
             THEN /\ response.status = 404
                  /\ response.detail =
                        <<"Metric ", request.metric, " not found for this career">>
             ELSE /\ response.status = 200
                  /\ response.data =
                        Stored(request.career).fields["trends"][request.metric]
                  /\ response.insight = Insight(request.career, request.metric)

\* the events_template list of a stored object, empty when the key is absent
TemplatesOf(record) ==
    IF "events_template" \in DOMAIN record.fields
    THEN record.fields["events_template"] ELSE <<>>

(* C5, as stated, on the records that are objects whose templates hold every
   required field: GET /simulate answers 404 for an unseeded person key, and
   for every seeded key the given person_id, a generated session identifier
   and one Event per template, in order, media_url defaulting to "". *)
C5_Original ==
    (Served /\ request.path = "/simulate"
        /\ request.person_id # Missing /\ request.body_kind \in {"none", "json"}
        /\ (request.person_id \in DOMAIN combined_mock_data =>
                /\ Stored(request.person_id).kind = "object"
                /\ \A i \in 1..Len(TemplatesOf(Stored(request.person_id))) :
                      RequiredEventFields \subseteq
                          DOMAIN TemplatesOf(Stored(request.person_id))[i])) =>
        IF request.person_id \notin DOMAIN combined_mock_data
        THEN response.status = 404
        ELSE LET templates == TemplatesOf(Stored(request.person_id))
             IN  /\ response.status = 200
                 /\ response.person_id = request.person_id
                 /\ response.session_id \in SessionIds
                 /\ Len(response.timeline) = Len(templates)
                 /\ \A i \in 1..Len(templates) :
                       /\ \A f \in RequiredEventFields :
                             response.timeline[i][f] = templates[i][f]
                       /\ response.timeline[i]["media_url"] =
                             IF "media_url" \in DOMAIN templates[i]
                             THEN templates[i]["media_url"] ELSE ""

\* a required input of the request is missing or does not validate
InputInvalid ==
    CASE request.path = "/token" -> ~CredentialsSupplied
      [] request.path \in BodyPaths -> request.body_kind # "json"
      [] request.path = "/api/trends" ->
            request.career = Missing \/ request.metric = Missing
      [] request.path = "/simulate" ->
            request.person_id = Missing \/ request.body_kind \in {"badjson", "badschema"}
      [] OTHER -> FALSE

\* the document holds under key a record an endpoint function cannot read:
\* an array, or an object one of whose event templates lacks a required field
IllShaped(key, readsTemplates) ==
    /\ key \in DOMAIN combined_mock_data
    /\ \/ Stored(key).kind = "array"
       \/ /\ readsTemplates
          /\ Stored(key).kind = "object"
          /\ \E i \in 1..Len(TemplatesOf(Stored(key))) :
                ~(RequiredEventFields \subseteq DOMAIN TemplatesOf(Stored(key))[i])

C7_Original ==
    (Served /\ request.path = "/") =>
        /\ response.message = "Welcome to the Career Trends API"
        /\ response.message # "Welcome to Career Compass API"

(* C7, amended: with two handlers registered for GET /, a GET / request is
   served by the first (earlier-registered) definition: it returns "Welcome
   to Career Compass API" and never "Welcome to the Career Trends API". *)
C7_FirstRouteWins ==
    (Served /\ request.path = "/") =>
        /\ response.status = 200
        /\ handler_ran = "read_root:130"
        /\ response.message = "Welcome to Career Compass API"
        /\ response.message # "Welcome to the Career Trends API"

\* GET / was served while both routes for it are in the routing table
C7_Witness_Root ==
    /\ request.method = "GET" /\ request.path = "/"
    /\ response.status = 200
    /\ Cardinality({i \in 1..Len(Routes) :
                       Routes[i].method = "GET" /\ Routes[i].path = "/"}) = 2

\* the identity of the request is looked at: its body, if one is declared,
\* is decodable
IdentityExamined ==
    ~(request.path \in BodyPaths /\ request.body_kind = "badjson")

(* C8: a token returned by a successful login is never refused (401) by a
   protected endpoint afterwards, whatever requests came in between; every
   token handed out is a username of the user table; and a protected
   endpoint refuses an identity exactly when the token is not a username of
   the user table, whether or not a login ever returned it. *)
C8_TokenNeverExpires ==
    /\ issued_tokens \subseteq DOMAIN users_db
    /\ (Served /\ request.path \in ProtectedPaths) =>
          /\ (request.token \in issued_tokens => response.status \in {200, 422})
          /\ (IdentityExamined =>
                 (response.status = 401 <=> request.token \notin DOMAIN users_db))
          /\ (response.status = 200 => response.user \in {request.token, NA})

\* a token issued before a later failed login is accepted by a protected endpoint
C8_Witness_LaterUse ==
    /\ issued_tokens = {"testuser"}
    /\ failed_login_since
    /\ request.path = "/simulation/generate"
    /\ request.token = "testuser"
    /\ response.status = 200

(* C9, as stated: each of the three static providers answers every request
   with a valid bearer identity with its constant payload, whatever else the
   request carries or omits. *)
C9_Original ==
    (Served /\ ValidIdentity
        /\ request.path \in {"/careers/recommend", "/careers/trends",
                             "/simulation/generate"}) =>
        /\ response.status = 200
        /\ response.recommendations =
              IF request.path = "/careers/recommend" THEN Recommendations ELSE <<>>

(* C9, amended: /careers/trends and /simulation/generate answer every request
   with a valid bearer identity with their constant payload, whatever else
   the request carries; /careers/recommend does so only when the request
   carries a body that validates as a personality profile (whose content
   does not change the payload) and answers 422 without running the handler
   otherwise; the username is the only varying part of the responses. *)
C9_StaticProviders ==
    (Served /\ ValidIdentity) =>
        /\ (request.path = "/careers/trends" =>
               response = [Success EXCEPT !.trends = CareerTrends])
        /\ (request.path = "/simulation/generate" =>
               response = [Success EXCEPT !.scenario = <<Scenario>>,
                                          !.user = request.token])
        /\ (request.path = "/careers/recommend" =>
               IF request.body_kind = "json"
               THEN response = [Success EXCEPT !.recommendations = Recommendations,
                                               !.user = request.token]
               ELSE response.status = 422 /\ handler_ran = "none")

\* /careers/recommend refused a request of a valid identity that carries no profile
C9_Witness_NoProfile ==
    /\ request.path = "/careers/recommend"
    /\ ValidIdentity
    /\ request.body_kind = "none"
    /\ response.status = 422

(* C10: no step of the service changes the user table or the loaded mock
   data: both keep the values they have at the end of startup. *)
C10_ReadOnlyData ==
    [][users_db' = users_db /\ combined_mock_data' = combined_mock_data]_vars

\* /simulate filled in a default media_url, and the stored template still lacks it
C10_Witness_DefaultNotStored ==
    /\ users_db = SeedUsers
    /\ request.path = "/simulate"
    /\ response.status = 200
    /\ \E i \in 1..Len(response.timeline) :
          /\ response.timeline[i].media_url = ""
          /\ "media_url" \notin DOMAIN TemplatesOf(Stored(request.person_id))[i]

=============================================================================
